---- MODULE Spec2Model ----
(***************************************************************************)
(* Model of prodsim/adapters/adapter.py: the Adapter aggregate (eight      *)
(* entity collections, seed, valid_configuration), its per-item reference  *)
(* validators, pydantic's validate_assignment attribute hook, and          *)
(* JsonAdapter.read_data / get_dict_object_of_adapter.                      *)
(*                                                                         *)
(* IDs are opaque strings in the program; here they are the integers       *)
(* 1..MaxID.  An entity carries only the attributes adapter.py reads: its  *)
(* class, its ID and its reference fields.                                 *)
(***************************************************************************)
EXTENDS Integers, Sequences, FiniteSets, TLC

\* ---------------------------------------------------------------- bounds
MaxID == 2
MaxRefs == 1
MaxEdits == 1
MaxAssigns == 1

IDs == 1..MaxID

Range(s) == {s[i] : i \in DOMAIN s}
SeqsUpTo(S, n) == UNION {[1..k -> S] : k \in 0..n}
RemoveAt(s, i) == [j \in 1..(Len(s) - 1) |-> IF j < i THEN s[j] ELSE s[j + 1]]

\* The values a list-of-IDs reference field is drawn from.
RefLists == SeqsUpTo(IDs, MaxRefs)

\* Material.processes is either a list of process IDs or a value that is not a
\* list (it still has content: a scalar naming something).
ListValue(l) == [list |-> TRUE, items |-> l]
ScalarValue(i) == [list |-> FALSE, items |-> <<i>>]
ProcessesValues == {ListValue(l) : l \in RefLists} \cup {ScalarValue(i) : i \in IDs}

\* ------------------------------------------------------- typed entities
TimeModels == {[cls |-> "TimeModelData", ID |-> i] : i \in IDs}
States == {[cls |-> "StateData", ID |-> i, time_model_id |-> t] : i \in IDs, t \in IDs}
Processes == {[cls |-> "ProcessData", ID |-> i, time_model_id |-> t] : i \in IDs, t \in IDs}
Queues == {[cls |-> "QueueData", ID |-> i] : i \in IDs}
BaseResources ==
  {[cls |-> "ResourceData", ID |-> i, processes |-> p, states |-> s] :
      i \in IDs, p \in RefLists, s \in RefLists}
ProductionResources ==
  {[cls |-> "ProductionResourceData", ID |-> i, processes |-> p, states |-> s,
    input_queues |-> iq, output_queues |-> oq] :
      i \in IDs, p \in RefLists, s \in RefLists, iq \in RefLists, oq \in RefLists}
Resources == BaseResources \cup ProductionResources
Materials ==
  {[cls |-> "MaterialData", ID |-> i, transport_process |-> t, processes |-> p] :
      i \in IDs, t \in IDs, p \in ProcessesValues}
Sinks ==
  {[cls |-> "SinkData", ID |-> i, material_type |-> m, input_queues |-> q] :
      i \in IDs, m \in IDs, q \in RefLists}
Sources ==
  {[cls |-> "SourceData", ID |-> i, time_model_id |-> t, material_type |-> m,
    output_queues |-> q] : i \in IDs, t \in IDs, m \in IDs, q \in RefLists}

\* The eight collection fields of Adapter, in declaration (and load) order.
CollectionFields ==
  <<"time_model_data", "state_data", "process_data", "queue_data",
    "resource_data", "material_data", "sink_data", "source_data">>

\* The document section each collection field is loaded from.
SectionOf ==
  [time_model_data |-> "time_models", state_data |-> "states",
   process_data |-> "processes", queue_data |-> "queues",
   resource_data |-> "resources", material_data |-> "materials",
   sink_data |-> "sinks", source_data |-> "sources"]

\* The entity type (or union) each collection field is declared with.
TypeOf ==
  [time_model_data |-> "TIME_MODEL_DATA", state_data |-> "STATE_DATA_UNION",
   process_data |-> "PROCESS_DATA_UNION", queue_data |-> "QueueData",
   resource_data |-> "RESOURCE_DATA_UNION", material_data |-> "MaterialData",
   sink_data |-> "SinkData", source_data |-> "SourceData"]

\* ------------------------------------------------ raw records <-> entities
\* A raw record is a mapping with the record's own ID, its reference fields
\* and a discriminator "type".  parse_obj_as decodes a raw record into the
\* entity of the requested category, or fails (<<>>).
parse_obj_as(type, values) ==
  CASE type = "TIME_MODEL_DATA" /\ values.type = "TimeModel" ->
         <<[cls |-> "TimeModelData", ID |-> values.ID]>>
    [] type = "STATE_DATA_UNION" /\ values.type = "State" ->
         <<[cls |-> "StateData", ID |-> values.ID, time_model_id |-> values.time_model_id]>>
    [] type = "PROCESS_DATA_UNION" /\ values.type = "Process" ->
         <<[cls |-> "ProcessData", ID |-> values.ID, time_model_id |-> values.time_model_id]>>
    [] type = "QueueData" /\ values.type = "Queue" ->
         <<[cls |-> "QueueData", ID |-> values.ID]>>
    [] type = "RESOURCE_DATA_UNION" /\ values.type = "Resource" ->
         <<[cls |-> "ResourceData", ID |-> values.ID, processes |-> values.processes,
            states |-> values.states]>>
    [] type = "RESOURCE_DATA_UNION" /\ values.type = "ProductionResource" ->
         <<[cls |-> "ProductionResourceData", ID |-> values.ID,
            processes |-> values.processes, states |-> values.states,
            input_queues |-> values.input_queues,
            output_queues |-> values.output_queues]>>
    [] type = "MaterialData" /\ values.type = "Material" ->
         <<[cls |-> "MaterialData", ID |-> values.ID,
            transport_process |-> values.transport_process,
            processes |-> values.processes]>>
    [] type = "SinkData" /\ values.type = "Sink" ->
         <<[cls |-> "SinkData", ID |-> values.ID, material_type |-> values.material_type,
            input_queues |-> values.input_queues]>>
    [] type = "SourceData" /\ values.type = "Source" ->
         <<[cls |-> "SourceData", ID |-> values.ID, time_model_id |-> values.time_model_id,
            material_type |-> values.material_type,
            output_queues |-> values.output_queues]>>
    [] OTHER -> <<>>

\* BaseModel.dict() of an entity: the raw record it decodes from.
dict(e) ==
  CASE e.cls = "TimeModelData" -> [type |-> "TimeModel", ID |-> e.ID]
    [] e.cls = "StateData" ->
         [type |-> "State", ID |-> e.ID, time_model_id |-> e.time_model_id]
    [] e.cls = "ProcessData" ->
         [type |-> "Process", ID |-> e.ID, time_model_id |-> e.time_model_id]
    [] e.cls = "QueueData" -> [type |-> "Queue", ID |-> e.ID]
    [] e.cls = "ResourceData" ->
         [type |-> "Resource", ID |-> e.ID, processes |-> e.processes, states |-> e.states]
    [] e.cls = "ProductionResourceData" ->
         [type |-> "ProductionResource", ID |-> e.ID, processes |-> e.processes,
          states |-> e.states, input_queues |-> e.input_queues,
          output_queues |-> e.output_queues]
    [] e.cls = "MaterialData" ->
         [type |-> "Material", ID |-> e.ID, transport_process |-> e.transport_process,
          processes |-> e.processes]
    [] e.cls = "SinkData" ->
         [type |-> "Sink", ID |-> e.ID, material_type |-> e.material_type,
          input_queues |-> e.input_queues]
    [] e.cls = "SourceData" ->
         [type |-> "Source", ID |-> e.ID, time_model_id |-> e.time_model_id,
          material_type |-> e.material_type, output_queues |-> e.output_queues]

\* ------------------------------------------------------------ validators
get_set_of_IDs(list_of_objects) == {list_of_objects[i].ID : i \in DOMAIN list_of_objects}

\* The ValueError a validator raises: which entity, which kind of reference,
\* the offending target and the set of valid IDs it was checked against.
ValueError(of, entity, field, target, valid) ==
  [of |-> of, entity |-> entity, field |-> field, target |-> target, valid |-> valid]

\* The first element of a list that is not in a set, as a sequence of length
\* 0 (none) or 1: the loops of the validators raise at the first such element.
FirstNotIn(list, set) ==
  LET bad == {i \in DOMAIN list : list[i] \notin set}
  IN  IF bad = {} THEN <<>>
      ELSE <<list[CHOOSE i \in bad : \A j \in bad : i <= j]>>

\* Each validator yields <<>> when it returns the item, <<error>> when it raises.
check_states(state, values) ==
  LET time_models == get_set_of_IDs(values["time_model_data"])
  IN  IF state.time_model_id \notin time_models
      THEN <<ValueError("state", state.ID, "time model", state.time_model_id, time_models)>>
      ELSE <<>>

\* Variant: the message names the time model as the entity and the process as
\* the target.
check_processes_swapped(process, values) ==
  LET time_models == get_set_of_IDs(values["time_model_data"])
  IN  IF process.time_model_id \notin time_models
      THEN <<ValueError("process", process.time_model_id, "time model", process.ID,
                        time_models)>>
      ELSE <<>>

check_processes(process, values) ==
  LET time_models == get_set_of_IDs(values["time_model_data"])
  IN  IF process.time_model_id \notin time_models
      THEN <<ValueError("process", process.ID, "time model", process.time_model_id,
                        time_models)>>
      ELSE <<>>

\* Variant: only the input queues of a production resource are checked.
check_resources_input_only(resource, values) ==
  LET processes == get_set_of_IDs(values["process_data"])
      states == get_set_of_IDs(values["state_data"])
      queues == get_set_of_IDs(values["queue_data"])
      badP == FirstNotIn(resource.processes, processes)
      badS == FirstNotIn(resource.states, states)
  IN  IF badP # <<>>
      THEN <<ValueError("resource", resource.ID, "process", badP[1], processes)>>
      ELSE IF badS # <<>>
      THEN <<ValueError("resource", resource.ID, "state", badS[1], states)>>
      ELSE IF resource.cls = "ProductionResourceData"
      THEN LET badQ == FirstNotIn(resource.input_queues, queues)
           IN  IF badQ # <<>>
               THEN <<ValueError("resource", resource.ID, "queue", badQ[1], queues)>>
               ELSE <<>>
      ELSE <<>>

check_resources(resource, values) ==
  LET processes == get_set_of_IDs(values["process_data"])
      states == get_set_of_IDs(values["state_data"])
      queues == get_set_of_IDs(values["queue_data"])
      badP == FirstNotIn(resource.processes, processes)
      badS == FirstNotIn(resource.states, states)
  IN  IF badP # <<>>
      THEN <<ValueError("resource", resource.ID, "process", badP[1], processes)>>
      ELSE IF badS # <<>>
      THEN <<ValueError("resource", resource.ID, "state", badS[1], states)>>
      ELSE IF resource.cls = "ProductionResourceData"
      THEN LET badQ == FirstNotIn(resource.input_queues \o resource.output_queues, queues)
           IN  IF badQ # <<>>
               THEN <<ValueError("resource", resource.ID, "queue", badQ[1], queues)>>
               ELSE <<>>
      ELSE <<>>

\* Variant: the processes value is iterated without the isinstance test.
check_materials_any_value(material, values) ==
  LET processes == get_set_of_IDs(values["process_data"])
      bad == FirstNotIn(material.processes.items, processes)
  IN  IF material.transport_process \notin processes
      THEN <<ValueError("material", material.ID, "transport process",
                        material.transport_process, processes)>>
      ELSE IF bad # <<>>
      THEN <<ValueError("material", material.ID, "process", bad[1], processes)>>
      ELSE <<>>

check_materials(material, values) ==
  LET processes == get_set_of_IDs(values["process_data"])
  IN  IF material.transport_process \notin processes
      THEN <<ValueError("material", material.ID, "transport process",
                        material.transport_process, processes)>>
      ELSE IF material.processes.list
      THEN LET bad == FirstNotIn(material.processes.items, processes)
           IN  IF bad # <<>>
               THEN <<ValueError("material", material.ID, "process", bad[1], processes)>>
               ELSE <<>>
      ELSE <<>>

\* Variant: the input queues of a sink are not checked.
check_sinks_material_only(sink, values) ==
  LET materials == get_set_of_IDs(values["material_data"])
  IN  IF sink.material_type \notin materials
      THEN <<ValueError("sink", sink.ID, "material type", sink.material_type, materials)>>
      ELSE <<>>

check_sinks(sink, values) ==
  LET materials == get_set_of_IDs(values["material_data"])
      queues == get_set_of_IDs(values["queue_data"])
      badQ == FirstNotIn(sink.input_queues, queues)
  IN  IF sink.material_type \notin materials
      THEN <<ValueError("sink", sink.ID, "material type", sink.material_type, materials)>>
      ELSE IF badQ # <<>>
      THEN <<ValueError("sink", sink.ID, "queue", badQ[1], queues)>>
      ELSE <<>>

check_sources(source, values) ==
  LET time_models == get_set_of_IDs(values["time_model_data"])
      materials == get_set_of_IDs(values["material_data"])
      queues == get_set_of_IDs(values["queue_data"])
      badQ == FirstNotIn(source.output_queues, queues)
  IN  IF source.time_model_id \notin time_models
      THEN <<ValueError("source", source.ID, "time model", source.time_model_id,
                        time_models)>>
      ELSE IF source.material_type \notin materials
      THEN <<ValueError("source", source.ID, "material type", source.material_type,
                        materials)>>
      ELSE IF badQ # <<>>
      THEN <<ValueError("source", source.ID, "queue", badQ[1], queues)>>
      ELSE <<>>

\* --------------------------------------------------------------- Adapter
\* A newly constructed adapter: the field defaults of class Adapter.
DefaultAdapter ==
  [valid_configuration |-> TRUE, reconfiguration_cost |-> 0,
   time_model_data |-> <<>>, state_data |-> <<>>, process_data |-> <<>>,
   queue_data |-> <<>>, resource_data |-> <<>>, material_data |-> <<>>,
   sink_data |-> <<>>, source_data |-> <<>>, seed |-> 21]

NoError == [kind |-> "none", field |-> "", msgs |-> <<>>]
Raise(kind, field, msgs) == [kind |-> kind, field |-> field, msgs |-> msgs]

\* The each_item validator registered for a field (none for time_model_data,
\* queue_data and the scalar fields).
Validator(name, item, values) ==
  CASE name = "state_data" -> check_states(item, values)
    [] name = "process_data" -> check_processes(item, values)
    [] name = "resource_data" -> check_resources(item, values)
    [] name = "material_data" -> check_materials(item, values)
    [] name = "sink_data" -> check_sinks(item, values)
    [] name = "source_data" -> check_sources(item, values)
    [] OTHER -> <<>>

\* each_item=True: the validator runs on every item of the list and the errors
\* of all failing items are collected, in list order.
RECURSIVE validate_each_item(_, _, _)
validate_each_item(name, value, values) ==
  IF value = <<>> THEN <<>>
  ELSE Validator(name, Head(value), values)
         \o validate_each_item(name, Tail(value), values)

\* Variant: an assignment re-validates every collection of the adapter as it
\* would be after the assignment.
setattr_whole_graph(self, name, value) ==
  LET new == [self EXCEPT ![name] = value]
      errors == validate_each_item("state_data", new.state_data, new)
                  \o validate_each_item("process_data", new.process_data, new)
                  \o validate_each_item("resource_data", new.resource_data, new)
                  \o validate_each_item("material_data", new.material_data, new)
                  \o validate_each_item("sink_data", new.sink_data, new)
                  \o validate_each_item("source_data", new.source_data, new)
  IN  IF errors # <<>>
      THEN [ok |-> FALSE, self |-> self, error |-> Raise("ValidationError", name, errors)]
      ELSE [ok |-> TRUE, self |-> new, error |-> NoError]

\* Attribute assignment under Config.validate_assignment: the new value is
\* validated against the current values of all OTHER fields; on error the
\* assignment raises and the object is unchanged, else only that field is set.
setattr(self, name, value) ==
  LET values == [f \in (DOMAIN self) \ {name} |-> self[f]]
      errors == validate_each_item(name, value, values)
  IN  IF errors # <<>>
      THEN [ok |-> FALSE, self |-> self, error |-> Raise("ValidationError", name, errors)]
      ELSE [ok |-> TRUE, self |-> [self EXCEPT ![name] = value], error |-> NoError]

\* ------------------------------------------------------------ JsonAdapter
\* A document: a scalar seed and eight sections, each an ordered mapping
\* (sequence of key/value items) from a record key to a raw record.  A
\* section (or the seed) may be absent from the document.
Item(k, v) == [key |-> k, value |-> v]
Section(items) == [present |-> TRUE, items |-> items]
MissingSection == [present |-> FALSE, items |-> <<>>]
Seed(n) == [present |-> TRUE, value |-> n]
MissingSeed == [present |-> FALSE, value |-> 0]

\* objects = [parse_obj_as(type, values) for values in configuration_data.values()];
\* the first record that does not decode raises.
RECURSIVE create_objects_from_configuration_data(_, _)
create_objects_from_configuration_data(configuration_data, type) ==
  IF configuration_data = <<>> THEN [ok |-> TRUE, objects |-> <<>>]
  ELSE LET obj == parse_obj_as(type, Head(configuration_data).value)
           rest == create_objects_from_configuration_data(Tail(configuration_data), type)
       IN  IF obj = <<>> \/ ~rest.ok
           THEN [ok |-> FALSE, objects |-> <<>>]
           ELSE [ok |-> TRUE, objects |-> obj \o rest.objects]

\* One statement of read_data for collection field number i:
\* self.<field> = self.create_objects_from_configuration_data(data[<section>], <type>)
load_field(self, data, i) ==
  LET name == CollectionFields[i]
      section == data[SectionOf[name]]
      created == create_objects_from_configuration_data(section.items, TypeOf[name])
  IN  IF ~section.present
      THEN [ok |-> FALSE, self |-> self, error |-> Raise("KeyError", name, <<>>)]
      ELSE IF ~created.ok
      THEN [ok |-> FALSE, self |-> self, error |-> Raise("ParseError", name, <<>>)]
      ELSE setattr(self, name, created.objects)

\* The eight collection assignments of read_data from number i on, in order;
\* the first statement that raises ends the call, leaving what was assigned.
RECURSIVE load_fields(_, _, _)
load_fields(self, data, i) ==
  IF i > Len(CollectionFields) THEN [ok |-> TRUE, self |-> self, error |-> NoError]
  ELSE LET r == load_field(self, data, i)
       IN  IF r.ok THEN load_fields(r.self, data, i + 1) ELSE r

\* Variant: read_data records in valid_configuration whether the load succeeded.
read_data_sets_flag(self, data) ==
  IF ~data.seed.present
  THEN [ok |-> FALSE, self |-> [self EXCEPT !.valid_configuration = FALSE],
        error |-> Raise("KeyError", "seed", <<>>)]
  ELSE LET r == load_fields([self EXCEPT !.seed = data.seed.value], data, 1)
       IN  [r EXCEPT !.self.valid_configuration = r.ok]

\* read_data after load_json: self.seed = data["seed"], then the collections.
read_data(self, data) ==
  IF ~data.seed.present
  THEN [ok |-> FALSE, self |-> self, error |-> Raise("KeyError", "seed", <<>>)]
  ELSE load_fields([self EXCEPT !.seed = data.seed.value], data, 1)

\* Variant: the entities are dumped in reverse list order.
get_dict_of_list_objects_reversed(values) ==
  [i \in 1..Len(values) |-> Item(i - 1, dict(values[Len(values) + 1 - i]))]

\* {counter: data.dict() for counter, data in enumerate(values)}
get_dict_of_list_objects(values) ==
  [i \in 1..Len(values) |-> Item(i - 1, dict(values[i]))]

get_dict_object_of_adapter(self) ==
  [seed |-> Seed(self.seed),
   time_models |-> Section(get_dict_of_list_objects(self.time_model_data)),
   states |-> Section(get_dict_of_list_objects(self.state_data)),
   processes |-> Section(get_dict_of_list_objects(self.process_data)),
   queues |-> Section(get_dict_of_list_objects(self.queue_data)),
   resources |-> Section(get_dict_of_list_objects(self.resource_data)),
   materials |-> Section(get_dict_of_list_objects(self.material_data)),
   sinks |-> Section(get_dict_of_list_objects(self.sink_data)),
   sources |-> Section(get_dict_of_list_objects(self.source_data))]

\* -------------------------------------------------------------- documents
\* The reference entity number j of a collection: own ID j, every reference j.
BaseEntity(name, j) ==
  CASE name = "time_model_data" -> [cls |-> "TimeModelData", ID |-> j]
    [] name = "state_data" -> [cls |-> "StateData", ID |-> j, time_model_id |-> j]
    [] name = "process_data" -> [cls |-> "ProcessData", ID |-> j, time_model_id |-> j]
    [] name = "queue_data" -> [cls |-> "QueueData", ID |-> j]
    [] name = "resource_data" ->
         [cls |-> "ProductionResourceData", ID |-> j, processes |-> <<j>>,
          states |-> <<j>>, input_queues |-> <<j>>, output_queues |-> <<j>>]
    [] name = "material_data" ->
         [cls |-> "MaterialData", ID |-> j, transport_process |-> j,
          processes |-> ListValue(<<j>>)]
    [] name = "sink_data" ->
         [cls |-> "SinkData", ID |-> j, material_type |-> j, input_queues |-> <<j>>]
    [] name = "source_data" ->
         [cls |-> "SourceData", ID |-> j, time_model_id |-> j, material_type |-> j,
          output_queues |-> <<j>>]

BaseSection(name, j) == Section(<<Item(1, dict(BaseEntity(name, j)))>>)

\* The reference document number j: seed j and one record per section.
BaseDoc(j) ==
  [seed |-> Seed(j),
   time_models |-> BaseSection("time_model_data", j),
   states |-> BaseSection("state_data", j),
   processes |-> BaseSection("process_data", j),
   queues |-> BaseSection("queue_data", j),
   resources |-> BaseSection("resource_data", j),
   materials |-> BaseSection("material_data", j),
   sinks |-> BaseSection("sink_data", j),
   sources |-> BaseSection("source_data", j)]

NoDocument ==
  [seed |-> MissingSeed, time_models |-> MissingSection, states |-> MissingSection,
   processes |-> MissingSection, queues |-> MissingSection,
   resources |-> MissingSection, materials |-> MissingSection,
   sinks |-> MissingSection, sources |-> MissingSection]

SectionNames == {SectionOf[CollectionFields[i]] : i \in DOMAIN CollectionFields}
FieldOfSection(s) == CHOOSE name \in Range(CollectionFields) : SectionOf[name] = s

\* The values one field of a raw record may be set to.
FieldValues(r, f) ==
  IF f \in {"ID", "time_model_id", "transport_process", "material_type"} THEN IDs
  ELSE IF "transport_process" \in DOMAIN r THEN ProcessesValues
  ELSE RefLists

\* The raw records one change away from r: one field set to another value, the
\* discriminator made unknown, or a production resource turned into a base one.
RecordEdits(r) ==
  UNION {{[r EXCEPT ![f] = v] : v \in FieldValues(r, f)} : f \in (DOMAIN r) \ {"type"}}
    \cup {[r EXCEPT !.type = "Unknown"]}
    \cup (IF r.type = "ProductionResource"
          THEN {[type |-> "Resource", ID |-> r.ID, processes |-> r.processes,
                 states |-> r.states]}
          ELSE {})

NextKey(items) ==
  IF items = <<>> THEN 1
  ELSE 1 + (CHOOSE k \in {items[i].key : i \in DOMAIN items} :
              \A i \in DOMAIN items : items[i].key <= k)

\* The item lists one change away: a record removed, changed or appended.
ItemsEdits(name, items) ==
  {RemoveAt(items, i) : i \in DOMAIN items}
    \cup UNION {{[items EXCEPT ![i].value = r] : r \in RecordEdits(items[i].value)} :
                  i \in DOMAIN items}
    \cup {Append(items, Item(NextKey(items), dict(BaseEntity(name, j)))) : j \in IDs}

\* The documents one change away from d.
DocEdits(d) ==
  {[d EXCEPT !.seed = MissingSeed]}
    \cup {[d EXCEPT !.seed = Seed(j)] : j \in IDs}
    \cup {[d EXCEPT ![s] = MissingSection] : s \in SectionNames}
    \cup UNION {{[d EXCEPT ![s].items = items] :
                   items \in ItemsEdits(FieldOfSection(s), d[s].items)} :
                  s \in {t \in SectionNames : d[t].present}}

\* ------------------------------------------------------------------ state
VARIABLES
  self,       \* the adapter
  before,     \* the adapter as it was when the last operation was called
  data,       \* the document read_data loads
  op,         \* the last operation called and its argument
  result,     \* "none" | "ok" | "error": how the last operation ended
  error,      \* the error the last operation raised
  assigns,    \* number of attribute assignments made by the caller
  dumped,     \* what get_dict_object_of_adapter returned last
  reloaded    \* a second, new adapter after read_data of the dumped document

vars == <<self, before, data, op, result, error, assigns, dumped, reloaded>>

NoOp == [name |-> "none", field |-> "", value |-> <<>>]
Call(name, field, value) == [name |-> name, field |-> field, value |-> value]
NotReloaded == [ok |-> FALSE, self |-> DefaultAdapter, error |-> NoError, done |-> FALSE]

\* An adapter that loaded another document earlier.
StaleAdapter == read_data(DefaultAdapter, BaseDoc(MaxID)).self

\* The adapters read_data is called on: newly constructed or holding an earlier
\* load, constructed with valid_configuration given or left at its default.
PriorAdapters ==
  {[a EXCEPT !.valid_configuration = b] : a \in {DefaultAdapter, StaleAdapter},
                                           b \in BOOLEAN}

\* The input documents: `data` is a document at most n changes away from d.
RECURSIVE DocumentWithin(_, _)
DocumentWithin(d, n) ==
  \/ data = d
  \/ /\ n > 0
     /\ \E e \in DocEdits(d) : DocumentWithin(e, n - 1)

InitRest ==
  /\ before = self
  /\ result = "none"
  /\ error = NoError
  /\ assigns = 0
  /\ dumped = NoDocument
  /\ reloaded = NotReloaded

Init ==
  /\ self \in PriorAdapters
  /\ DocumentWithin(BaseDoc(1), MaxEdits)
  /\ op = NoOp
  /\ InitRest

\* adapter.read_data(file_path), the file holding document `data`.
ReadData ==
  LET r == read_data(self, data)
  IN  /\ self' = r.self
      /\ before' = self
      /\ op' = Call("read_data", "", <<>>)
      /\ result' = IF r.ok THEN "ok" ELSE "error"
      /\ error' = r.error
      /\ UNCHANGED <<data, assigns, dumped, reloaded>>

\* d = adapter.get_dict_object_of_adapter() on an adapter read_data has filled.
Dump ==
  /\ op.name = "read_data"
  /\ result = "ok"
  /\ dumped' = get_dict_object_of_adapter(self)
  /\ before' = self
  /\ op' = Call("get_dict_object_of_adapter", "", <<>>)
  /\ UNCHANGED <<self, data, result, error, assigns, reloaded>>

\* JsonAdapter().read_data(...) of the dumped document into a new adapter.
Reload ==
  /\ dumped # NoDocument
  /\ ~reloaded.done
  /\ LET r == read_data(DefaultAdapter, dumped)
     IN  reloaded' = [ok |-> r.ok, self |-> r.self, error |-> r.error, done |-> TRUE]
  /\ UNCHANGED <<self, before, data, op, result, error, assigns, dumped>>

Next == ReadData \/ Dump \/ Reload

Spec == Init /\ [][Next]_vars

\* ------------------------------------------- assignment to collection fields
\* The typed entities one change away from e.
EntityEdits(e) ==
  UNION {{[e EXCEPT ![f] = v] : v \in FieldValues(e, f)} : f \in (DOMAIN e) \ {"cls"}}
    \cup (IF e.cls = "ProductionResourceData"
          THEN {[cls |-> "ResourceData", ID |-> e.ID, processes |-> e.processes,
                 states |-> e.states]}
          ELSE {})

\* The lists a caller assigns to a collection field: the current list with one
\* entity removed, changed or appended.
ListEdits(name, list) ==
  {RemoveAt(list, i) : i \in DOMAIN list}
    \cup UNION {{[list EXCEPT ![i] = e] : e \in EntityEdits(list[i])} : i \in DOMAIN list}
    \cup {Append(list, BaseEntity(name, j)) : j \in IDs}

InitAssign ==
  /\ self = DefaultAdapter
  /\ data \in {BaseDoc(j) : j \in IDs}
  /\ op = NoOp
  /\ InitRest

\* The adapter was filled by a successful read_data (and assigned to since).
Loaded == (op.name = "read_data" /\ result = "ok") \/ op.name = "setattr"

\* adapter.<name> = value, on an adapter a successful read_data has filled.
AssignField ==
  /\ Loaded
  /\ assigns < MaxAssigns
  /\ \E i \in DOMAIN CollectionFields :
       \E value \in ListEdits(CollectionFields[i], self[CollectionFields[i]]) :
         LET name == CollectionFields[i]
             r == setattr(self, name, value)
         IN  /\ self' = r.self
             /\ before' = self
             /\ op' = Call("setattr", name, value)
             /\ result' = IF r.ok THEN "ok" ELSE "error"
             /\ error' = r.error
  /\ assigns' = assigns + 1
  /\ UNCHANGED <<data, dumped, reloaded>>

NextAssign == ReadData \/ AssignField

SpecAssign == InitAssign /\ [][NextAssign]_vars

\* ------------------------------------------------- the validators on their own
\* The list of reference entities 1..k of a collection.
BaseList(name, k) == [j \in 1..k |-> BaseEntity(name, j)]

\* The field values a validator is run against: the process, state and queue
\* collections hold the IDs 1..p, 1..s and 1..q.
CheckContexts ==
  {[DefaultAdapter EXCEPT !.process_data = BaseList("process_data", p),
                          !.state_data = BaseList("state_data", s),
                          !.queue_data = BaseList("queue_data", q)] :
     p \in 0..MaxID, s \in 0..MaxID, q \in 0..MaxID}

\* The entities at most n changes away from e.
RECURSIVE EntitiesWithin(_, _)
EntitiesWithin(e, n) ==
  IF n = 0 THEN {e}
  ELSE LET E == EntitiesWithin(e, n - 1) IN E \cup UNION {EntityEdits(x) : x \in E}

\* The material or resource a validator is about to be run on.
CheckItems ==
  EntitiesWithin(BaseEntity("material_data", 1), MaxEdits)
    \cup EntitiesWithin(BaseEntity("resource_data", 1), MaxEdits)

InitCheck ==
  /\ self \in CheckContexts
  /\ data = NoDocument
  /\ \E item \in CheckItems : op = Call("none", "", <<item>>)
  /\ InitRest

Checked(name, field, raised) ==
  /\ op' = [op EXCEPT !.name = name, !.field = field]
  /\ result' = IF raised = <<>> THEN "ok" ELSE "error"
  /\ error' = IF raised = <<>> THEN NoError ELSE Raise("ValueError", field, raised)
  /\ UNCHANGED <<self, before, data, assigns, dumped, reloaded>>

\* check_materials(material, values) with values the fields of `self`.
CheckMaterials ==
  /\ op.value[1].cls = "MaterialData"
  /\ Checked("check_materials", "material_data", check_materials(op.value[1], self))

\* check_resources(resource, values) with values the fields of `self`.
CheckResources ==
  /\ op.value[1].cls \in {"ResourceData", "ProductionResourceData"}
  /\ Checked("check_resources", "resource_data", check_resources(op.value[1], self))

NextCheck == CheckMaterials \/ CheckResources

SpecCheck == InitCheck /\ [][NextCheck]_vars

\* ================================================================ properties
\* What the claims speak of, stated on the data and not through the validators.
Held(a, name) == {a[name][i].ID : i \in DOMAIN a[name]}

\* Every reference field of entity e names an ID held by adapter a.
EntityResolves(e, a) ==
  CASE e.cls \in {"StateData", "ProcessData"} ->
         e.time_model_id \in Held(a, "time_model_data")
    [] e.cls = "ResourceData" ->
         /\ Range(e.processes) \subseteq Held(a, "process_data")
         /\ Range(e.states) \subseteq Held(a, "state_data")
    [] e.cls = "ProductionResourceData" ->
         /\ Range(e.processes) \subseteq Held(a, "process_data")
         /\ Range(e.states) \subseteq Held(a, "state_data")
         /\ Range(e.input_queues) \subseteq Held(a, "queue_data")
         /\ Range(e.output_queues) \subseteq Held(a, "queue_data")
    [] e.cls = "MaterialData" ->
         /\ e.transport_process \in Held(a, "process_data")
         /\ e.processes.list => Range(e.processes.items) \subseteq Held(a, "process_data")
    [] e.cls = "SinkData" ->
         /\ e.material_type \in Held(a, "material_data")
         /\ Range(e.input_queues) \subseteq Held(a, "queue_data")
    [] e.cls = "SourceData" ->
         /\ e.time_model_id \in Held(a, "time_model_data")
         /\ e.material_type \in Held(a, "material_data")
         /\ Range(e.output_queues) \subseteq Held(a, "queue_data")
    [] OTHER -> TRUE

ListResolves(list, a) == \A i \in DOMAIN list : EntityResolves(list[i], a)

Resolves(a) == \A name \in Range(CollectionFields) : ListResolves(a[name], a)

\* Same seed and the same eight collections (entities, order, references).
SameGraph(a, b) ==
  /\ a.seed = b.seed
  /\ \A name \in Range(CollectionFields) : a[name] = b[name]

ReadOk == op.name = "read_data" /\ result = "ok"
ReadFailed == op.name = "read_data" /\ result = "error"

\* The IDs of the records of a document section.
DocIDs(d, s) == {d[s].items[i].value.ID : i \in DOMAIN d[s].items}

Violation(of, r, field, targets, valid) ==
  {[of |-> of, entity |-> r.ID, field |-> field, target |-> y] : y \in targets \ valid}

\* The dangling references of one raw record of document d, per the table of
\* reference fields: (kind of entity, its ID, kind of field, missing target).
RecordDangling(r, d) ==
  CASE r.type = "State" ->
         Violation("state", r, "time model", {r.time_model_id}, DocIDs(d, "time_models"))
    [] r.type = "Process" ->
         Violation("process", r, "time model", {r.time_model_id}, DocIDs(d, "time_models"))
    [] r.type = "Resource" ->
         Violation("resource", r, "process", Range(r.processes), DocIDs(d, "processes"))
           \cup Violation("resource", r, "state", Range(r.states), DocIDs(d, "states"))
    [] r.type = "ProductionResource" ->
         Violation("resource", r, "process", Range(r.processes), DocIDs(d, "processes"))
           \cup Violation("resource", r, "state", Range(r.states), DocIDs(d, "states"))
           \cup Violation("resource", r, "queue",
                          Range(r.input_queues) \cup Range(r.output_queues),
                          DocIDs(d, "queues"))
    [] r.type = "Material" ->
         Violation("material", r, "transport process", {r.transport_process},
                   DocIDs(d, "processes"))
           \cup (IF r.processes.list
                 THEN Violation("material", r, "process", Range(r.processes.items),
                                DocIDs(d, "processes"))
                 ELSE {})
    [] r.type = "Sink" ->
         Violation("sink", r, "material type", {r.material_type}, DocIDs(d, "materials"))
           \cup Violation("sink", r, "queue", Range(r.input_queues), DocIDs(d, "queues"))
    [] r.type = "Source" ->
         Violation("source", r, "time model", {r.time_model_id}, DocIDs(d, "time_models"))
           \cup Violation("source", r, "material type", {r.material_type},
                          DocIDs(d, "materials"))
           \cup Violation("source", r, "queue", Range(r.output_queues), DocIDs(d, "queues"))
    [] OTHER -> {}

SectionDangling(d, s) == UNION {RecordDangling(d[s].items[i].value, d) : i \in DOMAIN d[s].items}
DocDangling(d) == UNION {SectionDangling(d, s) : s \in SectionNames}

Named(msg) == [of |-> msg.of, entity |-> msg.entity, field |-> msg.field, target |-> msg.target]

\* ------------------------------------------------------------------- C1
\* C1: whenever read_data returns without error, whatever the adapter held
\* before, every reference field of every entity of the adapter names an ID
\* held by the adapter's own target collection.
C1Theorem == ReadOk => Resolves(self)

\* A successful load, over an adapter that held another graph, of a document
\* with resources, sinks and sources.
C1Witness ==
  /\ ReadOk
  /\ before.source_data # <<>>
  /\ ~SameGraph(before, self)
  /\ self.resource_data # <<>> /\ self.sink_data # <<>> /\ self.source_data # <<>>

\* ------------------------------------------------------------------- C2
\* C2: if the document holds a record X whose reference field f names an ID y
\* absent from the target section, read_data fails; and when the failure is a
\* validation error, every message of it names (X, kind of f, y) for such a
\* dangling reference of the document, and every record of the failing section
\* that has a dangling reference is named by a message.
C2Theorem ==
  (op.name = "read_data" /\ DocDangling(data) # {}) =>
    /\ result = "error"
    /\ error.kind = "ValidationError" =>
         /\ error.msgs # <<>>
         /\ \A i \in DOMAIN error.msgs : Named(error.msgs[i]) \in DocDangling(data)
         /\ \A v \in SectionDangling(data, SectionOf[error.field]) :
              \E i \in DOMAIN error.msgs : error.msgs[i].entity = v.entity

\* A load that failed on a source naming a queue the document does not have.
C2Witness ==
  /\ ReadFailed
  /\ error.kind = "ValidationError"
  /\ error.field = "source_data"
  /\ error.msgs[1].field = "queue"

\* ------------------------------------------------------------------- C3
\* C3: a load is all-or-nothing: when read_data fails, the adapter's seed and
\* eight collections are what they were before the call.
C3AllOrNothing == ReadFailed => SameGraph(self, before)

\* ------------------------------------------------------------------- C4
\* C4: the dump keys each collection's entities 0..n-1 in list order and does
\* not change the adapter; loading the dump into a new adapter succeeds and
\* yields the same seed and the same eight collections, entity by entity.
KeysPositional(d) ==
  \A s \in SectionNames : \A i \in DOMAIN d[s].items : d[s].items[i].key = i - 1

C5UniqueIDs ==
  ReadOk =>
    \A name \in Range(CollectionFields) :
      \A i, j \in DOMAIN self[name] : self[name][i].ID = self[name][j].ID => i = j

\* ------------------------------------------------------------------- C6
\* C6: after a successful load and any sequence of assignments to collection
\* fields, every reference field of every entity still resolves.
C6Consistent == Loaded => Resolves(self)

\* ------------------------------------------------------------------- C7
\* C7: for a material whose transport_process resolves, check_materials
\* (a) accepts it when processes is not a list, whatever process_data holds,
\* (b) accepts it when processes is the empty list, and (c) rejects it when
\* processes is a list with an ID that is not in process_data.
C7Theorem ==
  op.name = "check_materials" =>
    LET material == op.value[1]
        held == Held(self, "process_data")
    IN  material.transport_process \in held =>
          /\ ~material.processes.list => result = "ok"
          /\ (material.processes.list /\ material.processes.items = <<>>) => result = "ok"
          /\ (material.processes.list /\ ~(Range(material.processes.items) \subseteq held))
               => result = "error"

\* A material accepted although its non-list processes value names no process.
C7Witness ==
  /\ op.name = "check_materials"
  /\ result = "ok"
  /\ ~op.value[1].processes.list
  /\ ~(Range(op.value[1].processes.items) \subseteq Held(self, "process_data"))

\* ------------------------------------------------------------------- C8
\* C8: check_resources accepts a resource that is not production-capable iff
\* its processes are all in process_data and its states all in state_data; it
\* accepts a production-capable one iff, in addition, all its input and output
\* queues are in queue_data.
C8Theorem ==
  op.name = "check_resources" =>
    LET resource == op.value[1]
        basic == /\ Range(resource.processes) \subseteq Held(self, "process_data")
                 /\ Range(resource.states) \subseteq Held(self, "state_data")
    IN  IF resource.cls = "ProductionResourceData"
        THEN result = "ok" <=>
               /\ basic
               /\ Range(resource.input_queues) \subseteq Held(self, "queue_data")
               /\ Range(resource.output_queues) \subseteq Held(self, "queue_data")
        ELSE result = "ok" <=> basic

\* A production resource rejected for an output queue alone.
C8Witness ==
  /\ op.name = "check_resources"
  /\ result = "error"
  /\ op.value[1].cls = "ProductionResourceData"
  /\ error.msgs[1].field = "queue"
  /\ Range(op.value[1].input_queues) \subseteq Held(self, "queue_data")

\* ------------------------------------------------------------------- C9
\* C9 as stated: valid_configuration is not true before any load and after a
\* failed load, and is true after a successful load.
C9FlagTracksValidation ==
  /\ (op.name = "none" \/ ReadFailed) => ~self.valid_configuration
  /\ ReadOk => self.valid_configuration

\* C9 amended: read_data never changes valid_configuration, whether it succeeds
\* or fails; the flag is true on a newly constructed adapter (the default), so
\* it is true after any load, successful or not, into such an adapter.
C9Theorem ==
  op.name = "read_data" =>
    /\ self.valid_configuration = before.valid_configuration
    /\ before = DefaultAdapter => self.valid_configuration

\* A failed load into a new adapter, the flag still true.
C9Witness ==
  /\ ReadFailed
  /\ before = DefaultAdapter
  /\ self.valid_configuration

\* ------------------------------------------------------------------ C10
\* C10: assigning a collection field is accepted exactly when the references
\* of the assigned entities resolve in the other collections as they are; an
\* accepted assignment changes that field only (whatever becomes of entities
\* of other collections that reference it), a rejected one changes nothing.
C10Theorem ==
  op.name = "setattr" =>
    /\ result = "ok" <=> ListResolves(op.value, before)
    /\ result = "ok" => self = [before EXCEPT ![op.field] = op.value]
    /\ result = "error" => self = before

\* An accepted assignment that left entities of another collection dangling.
C10Witness ==
  /\ op.name = "setattr"
  /\ result = "ok"
  /\ Resolves(before)
  /\ ~Resolves(self)

====
